---- MODULE Spec2Model ----
(***************************************************************************)
(* Model of the streaming chat session manager of olympian-ai-dynamic:     *)
(* backend/app/core/websocket.py (WebSocketManager, websocket_endpoint)    *)
(* and the stop-by-client-id endpoint of backend/app/api/chat.py.          *)
(*                                                                         *)
(* The program runs on one asyncio event loop.  A step of the model is the *)
(* code a coroutine runs between two suspension points: awaiting the next  *)
(* inbound frame, awaiting the next upstream fragment, awaiting the        *)
(* streaming task, or awaiting a transport send.                           *)
(***************************************************************************)
EXTENDS Integers, Sequences, FiniteSets, TLC

\* ---------------------------------------------------------------- bounds
MaxChunks == 1      \* fragments the upstream stream yields at most
MaxInputs == 2      \* client frames and HTTP/API calls issued in one run

\* ------------------------------------------------------------- universe
WebSockets == {"w1", "w2", "w3"}           \* transport objects, one per endpoint call
StreamSockets == {"w1", "w2"}              \* the endpoints of the streaming specification
NoWs == "none"
NoId == "-"                                \* client_id = None
\* The client_id each endpoint call may carry: /ws/{client_id} or /ws.  Endpoint
\* calls are numbered in order of arrival and identifiers matter only up to
\* equality, so the first call carries "a" and the second collides or does not.
Suggested == [w \in WebSockets |-> IF w = "w1" THEN {"a"} ELSE {"a", NoId}]
Earlier(w) == IF w = "w1" THEN {} ELSE IF w = "w2" THEN {"w1"} ELSE {"w1", "w2"}
Uuid == [w \in WebSockets |-> IF w = "w1" THEN "u1" ELSE IF w = "w2" THEN "u2" ELSE "u3"]
ClientIds == {"a"} \cup {Uuid[w] : w \in WebSockets}
\* failed: the adapter's stream_chat met an upstream failure in this generation
NoTask == [pos |-> "none", client_id |-> NoId, chunks |-> 0, must_cancel |-> FALSE, gen |-> 0,
           failed |-> FALSE]
\* The handler drops its reference to the finished task; gen, client_id and failed
\* stay as a record of the endpoint's last generation.
Forget(t) == [t EXCEPT !.pos = "none", !.chunks = 0, !.must_cancel = FALSE]

VARIABLES
    active_connections,   \* dict client_id -> WebSocket, in insertion order
    connection_metadata,  \* dict client_id -> [is_streaming]
    active_streams,       \* dict client_id -> streaming task (named by its endpoint's socket)
    task,                 \* per endpoint: the asyncio task running _stream_chat_response
    pc,                   \* per endpoint: position of websocket_endpoint
    inbox,                \* per transport: frames the client sent, not yet received
    alive,                \* per transport: FALSE once the peer is gone (send_json raises)
    delivered,            \* per transport: events written to it, in order
    http,                 \* the answer the stop-by-client-id endpoint gives in this step
    broadcast_iter,       \* the dict iterator of a running broadcast, and how it ended
    gens,                 \* generations started so far
    inputs,               \* client frames and API calls issued so far
    shutdown,             \* the position of a call of disconnect_all, and how it ended
    ollama_service,       \* service_manager._ollama_service, and whether startup has run
    conversations,        \* api/chat.py: the store, conversation id -> conversation
    requests,             \* send_chat_message / regenerate calls suspended in stream_chat
    uuids,                \* uuid4 values drawn for conversations so far
    calls,                \* calls of the chat API that wrote to the store so far
    now,                  \* what datetime.now() returns
    response              \* the answer the chat API gives in this step

ws_vars == <<active_connections, connection_metadata, active_streams, task, pc,
             inbox, alive, delivered, http, broadcast_iter, gens, inputs, shutdown>>
chat_vars == <<ollama_service, conversations, requests, uuids, calls, now, response>>
vars == <<ws_vars, chat_vars>>

\* ------------------------------------------------- dict helpers (ordered)
\* A dict is the sequence of its entries in insertion order.  While an iterator is
\* open a deleted entry stays in place as a dummy, as in CPython's entry array; the
\* dummies are dropped when no iterator remains to see them.
Dummy == [id |-> NoId, ws |-> NoWs]
Keys(d) == {d[i].id : i \in DOMAIN d} \ {NoId}
Lookup(d, id) == (CHOOSE i \in DOMAIN d : d[i].id = id)
Get(d, id) == d[Lookup(d, id)].ws
DictSet(d, id, ws) ==
    IF id \in Keys(d) THEN [d EXCEPT ![Lookup(d, id)] = [id |-> id, ws |-> ws]]
    ELSE Append(d, [id |-> id, ws |-> ws])
DictDel(d, id) == [i \in DOMAIN d |-> IF d[i].id = id THEN Dummy ELSE d[i]]
Compact(d) == SelectSeq(d, LAMBDA e : e.id # NoId)
EmptyMap == [x \in {} |-> FALSE]
MapSet(f, k, v) == [x \in DOMAIN f \cup {k} |-> IF x = k THEN v ELSE f[x]]
MapDel(f, k) == [x \in DOMAIN f \ {k} |-> f[x]]

Event(type, gen, n) == [type |-> type, gen |-> gen, n |-> n]

\* The manager's dictionaries, the tasks and the transports' output, as one value
\* the methods below transform.
Cur == [ac |-> active_connections, md |-> connection_metadata,
        st |-> active_streams, tk |-> task, dl |-> delivered, al |-> alive,
        it |-> broadcast_iter]

\* asyncio.Task.cancel(): no effect on a finished task, otherwise CancelledError is
\* thrown into the task at its current suspension point when it is next resumed.
Cancel(tk, w) ==
    IF tk[w].pos \in {"none", "done", "cancelled", "joined"} THEN tk
    ELSE [tk EXCEPT ![w].must_cancel = TRUE]

\* WebSocketManager._get_client_id
GetClientId(ac, ws) ==
    IF \E i \in DOMAIN ac : ac[i].ws = ws
    THEN ac[CHOOSE i \in DOMAIN ac : ac[i].ws = ws /\ \A j \in 1..(i-1) : ac[j].ws # ws].id
    ELSE NoId

\* WebSocketManager.disconnect
Disconnect(s, ws) ==
    LET client_id == GetClientId(s.ac, ws) IN
    IF client_id = NoId THEN s
    ELSE [s EXCEPT
            !.tk = IF client_id \in DOMAIN s.st THEN Cancel(s.tk, s.st[client_id]) ELSE s.tk,
            !.st = MapDel(s.st, client_id),
            !.ac = DictDel(s.ac, client_id),
            !.md = MapDel(s.md, client_id)]

\* send_message whose except clause only logs
SendMessage_NoDisconnect(s, client_id, ev) ==
    IF client_id \in Keys(s.ac) /\ s.al[Get(s.ac, client_id)]
    THEN [s EXCEPT !.dl[Get(s.ac, client_id)] = Append(@, ev)]
    ELSE s

\* WebSocketManager.send_message
SendMessage(s, client_id, ev) ==
    IF client_id \in Keys(s.ac)
    THEN LET websocket == Get(s.ac, client_id) IN
         IF s.al[websocket]
         THEN [s EXCEPT !.dl[websocket] = Append(@, ev)]
         ELSE Disconnect(s, websocket)
    ELSE s

\* WebSocketManager.get_client_stream_status
GetClientStreamStatus(client_id) ==
    [is_streaming |-> IF client_id \in DOMAIN connection_metadata
                      THEN connection_metadata[client_id].is_streaming ELSE FALSE,
     has_active_stream |-> client_id \in DOMAIN active_streams]

\* _handle_stop_generation without the task.cancel() call
HandleStopGeneration_NoCancel(s, client_id) ==
    IF client_id \in DOMAIN s.st
    THEN SendMessage(s, client_id, Event("generation_stopped", s.tk[s.st[client_id]].gen, 1))
    ELSE SendMessage(s, client_id, Event("generation_stopped", 0, 0))

\* WebSocketManager._handle_stop_generation
HandleStopGeneration(s, client_id) ==
    IF client_id \in DOMAIN s.st
    THEN LET t == s.st[client_id] IN
         SendMessage([s EXCEPT !.tk = Cancel(s.tk, t)], client_id,
                     Event("generation_stopped", s.tk[t].gen, 1))
    ELSE SendMessage(s, client_id, Event("generation_stopped", 0, 0))

\* connect returning without the welcome event
SendWelcomeMessage_Omitted(dl, websocket) == dl

\* WebSocketManager._send_welcome_message: a failed send is logged and swallowed
SendWelcomeMessage(dl, websocket) ==
    IF alive[websocket] THEN [dl EXCEPT ![websocket] = Append(@, Event("welcome", 0, 0))]
    ELSE dl

\* WebSocketManager.send_error
SendError(s, client_id, kind) == SendMessage(s, client_id, Event(kind, 0, 0))

\* _handle_chat_message, the finally block: drop the task handle, reset the flag.
\* connection_metadata[client_id] raises KeyError when the entry is gone; the
\* KeyError leaves the handler and handle_message answers it with send_error.
Cleanup(s, client_id) ==
    LET s1 == [s EXCEPT !.st = MapDel(s.st, client_id)] IN
    IF client_id \in DOMAIN s.md
    THEN [s1 EXCEPT !.md[client_id].is_streaming = FALSE]
    ELSE SendError(s1, client_id, "error_handler")

\* asyncio.create_task(_stream_chat_response(...)) and the two assignments after it
StartStream(s, w, client_id, g) ==
    [s EXCEPT !.tk[w] = [pos |-> "created", client_id |-> client_id, chunks |-> 0,
                         must_cancel |-> FALSE, gen |-> g, failed |-> FALSE],
              !.st = MapSet(s.st, client_id, w),
              !.md[client_id].is_streaming = TRUE]

NoAnswer == [client_id |-> NoId, status |-> "none"]
NoIter == [state |-> "idle", pos |-> 0, used |-> 0, exclude |-> {}, targets |-> {}, sent |-> {}]
\* disconnect_all not called: todo is the rest of list(self.active_connections.keys()),
\* cur the client_id whose transport is being closed; ids, sockets and tasks record
\* the ids and transports registered and the tasks running when it was called.
NoShutdown == [state |-> "idle", todo |-> <<>>, cur |-> NoId, ids |-> {}, sockets |-> {},
               tasks |-> {}]

\* no call of the chat API answered in this step
NoResponse == [op |-> "none", status |-> 0]

ApplyManager(s) ==
    /\ active_connections' = IF s.it.state = "iter" THEN s.ac ELSE Compact(s.ac)
    /\ broadcast_iter' = s.it
    /\ connection_metadata' = s.md
    /\ active_streams' = s.st
    /\ task' = s.tk
    /\ delivered' = s.dl
    /\ alive' = s.al

Apply(s) == ApplyManager(s) /\ http' = NoAnswer /\ UNCHANGED shutdown /\ UNCHANGED chat_vars

\* The peer of the transport registered under client_id goes away just before this
\* step writes to it: from now on send_json on that transport raises.
CanGo(client_id) ==
    /\ client_id \in Keys(active_connections)
    /\ alive[Get(active_connections, client_id)]
PeerGone(gone, client_id) ==
    IF gone THEN [Cur EXCEPT !.al[Get(active_connections, client_id)] = FALSE] ELSE Cur

Init ==
    /\ active_connections = <<>>
    /\ connection_metadata = EmptyMap
    /\ active_streams = EmptyMap
    /\ task = [w \in WebSockets |-> NoTask]
    /\ pc = [w \in WebSockets |-> "init"]
    /\ inbox = [w \in WebSockets |-> <<>>]
    /\ alive = [w \in WebSockets |-> TRUE]
    /\ delivered = [w \in WebSockets |-> <<>>]
    /\ http = NoAnswer
    /\ broadcast_iter = NoIter
    /\ gens = 0
    /\ inputs = 0
    /\ shutdown = NoShutdown
    /\ ollama_service = "starting"
    /\ conversations = EmptyMap
    /\ requests = <<>>
    /\ uuids = 0
    /\ calls = 0
    /\ now = 0
    /\ response = NoResponse

\* websocket_endpoint up to its first receive: WebSocketManager.connect
Connect(w, suggested) ==
    /\ pc[w] = "init"
    /\ \A v \in Earlier(w) : pc[v] # "init"
    /\ LET client_id == IF suggested = NoId THEN Uuid[w] ELSE suggested IN
       /\ active_connections' = DictSet(active_connections, client_id, w)
       /\ connection_metadata' = MapSet(connection_metadata, client_id, [is_streaming |-> FALSE])
       /\ delivered' = SendWelcomeMessage(delivered, w)
    /\ pc' = [pc EXCEPT ![w] = "receive"]
    /\ http' = NoAnswer
    /\ UNCHANGED chat_vars
    /\ UNCHANGED <<active_streams, task, inbox, alive, broadcast_iter, gens, inputs, shutdown>>

\* A generation of this endpoint is under way and no terminal event was sent for it.
InFlight(w) == task[w].pos \in {"created", "stream"} /\ ~task[w].must_cancel

\* The frames a client writes: {type: "chat", content, model?} and
\* {type: "stop_generation"}.  `during` records whether the client wrote the
\* frame while a generation of its connection was in flight.
Messages == {[type |-> "chat", model |-> TRUE], [type |-> "chat", model |-> FALSE],
             [type |-> "stop_generation", model |-> FALSE]}

ClientSend(w, m) ==
    /\ pc[w] \notin {"init", "closed"}
    /\ alive[w]
    /\ inputs < MaxInputs
    /\ inputs' = inputs + 1
    /\ inbox' = [inbox EXCEPT ![w] = Append(@, [type |-> m.type, model |-> m.model,
                                                during |-> InFlight(w)])]
    /\ http' = NoAnswer
    /\ UNCHANGED chat_vars
    /\ UNCHANGED <<active_connections, connection_metadata, active_streams, task, pc,
                   alive, delivered, broadcast_iter, gens, shutdown>>

\* _handle_chat_message up to `await stream_task`
HandleChatMessage(s, w, client_id, message, g) ==
    IF s.md[client_id].is_streaming THEN SendError(s, client_id, "error_busy")
    ELSE IF ~message.model THEN SendError(s, client_id, "error_no_model")
    ELSE StartStream(s, w, client_id, g)

\* Frames the dispatch table does not serve: a type no handler is registered for,
\* no type at all (message.get("type") is None), a type that is not hashable (the
\* table lookup raises TypeError outside handle_message's try), and a
\* config_update of config_type "model" without data, whose handler raises
\* AttributeError before it has changed anything.
OtherMessages == {[type |-> "bogus", model |-> FALSE], [type |-> "None", model |-> FALSE],
                  [type |-> "unhashable", model |-> FALSE],
                  [type |-> "config_update", model |-> FALSE]}

\* handle_message for a registered client: the dispatch on message["type"].  An
\* exception of the handler is answered with send_error(client_id, str(e)); the
\* TypeError of the lookup leaves handle_message and websocket_endpoint answers it
\* with send_error(actual_client_id, "Message handling error: ...").
HandleMessage(s, w, client_id, message, g) ==
    IF message.type = "chat" THEN HandleChatMessage(s, w, client_id, message, g)
    ELSE IF message.type = "stop_generation" THEN HandleStopGeneration(s, client_id)
    ELSE IF message.type = "config_update" THEN SendError(s, client_id, "error_handler")
    ELSE IF message.type = "unhashable" THEN SendError(s, client_id, "error_message_handling")
    ELSE SendError(s, client_id, "Unknown message type: " \o message.type)

\* websocket_endpoint: receive_text returns a frame; handle_message routes it and
\* runs the handler up to its first suspension.
Receive(w, gone) ==
    /\ pc[w] = "receive"
    /\ inbox[w] # <<>>
    /\ inbox' = [inbox EXCEPT ![w] = Tail(@)]
    /\ LET message == Head(inbox[w])
           client_id == GetClientId(active_connections, w)
           s == PeerGone(gone, client_id)
           accepted == /\ message.type = "chat" /\ message.model
                       /\ ~connection_metadata[client_id].is_streaming
       IN
       /\ gone => (client_id # NoId /\ CanGo(client_id) /\ ~accepted)
       /\ IF client_id = NoId
          THEN /\ http' = NoAnswer
               /\ UNCHANGED chat_vars
               /\ UNCHANGED <<active_connections, connection_metadata, active_streams,
                              task, pc, delivered, alive, broadcast_iter, gens, shutdown>>
          ELSE /\ Apply(HandleMessage(s, w, client_id, message, gens + 1))
               /\ gens' = IF accepted THEN gens + 1 ELSE gens
               /\ pc' = [pc EXCEPT ![w] = IF accepted THEN "await_stream" ELSE "receive"]
    /\ UNCHANGED <<inputs>>

\* websocket_endpoint: receive_text raises WebSocketDisconnect because the peer is
\* gone (now, or since an earlier failed send); the loop breaks and the finally
\* block calls disconnect(websocket).
ReceiveDisconnect(w) ==
    /\ pc[w] = "receive"
    /\ inbox[w] = <<>>
    /\ Apply(Disconnect([Cur EXCEPT !.al[w] = FALSE], w))
    /\ pc' = [pc EXCEPT ![w] = "closed"]
    /\ UNCHANGED <<inbox, gens, inputs>>

\* What OllamaService.stream_chat does when the task asks it for the next item:
\* it yields a fragment of the reply, or the upstream fails (no endpoint or client,
\* a status other than 200, a timeout, any exception) and it yields the text
\* "Error: ..." as a fragment and then ends, or the stream ends.
Upstream == {"fragment", "failure", "end"}

\* One resumption of the task running _stream_chat_response.  stream_chat raises
\* nothing to it, so the task ends by completing or by being cancelled.
StreamStep(s, w, up) ==
    LET t == s.tk[w] IN
    IF t.must_cancel
    THEN [s EXCEPT !.tk[w].pos = "cancelled"]
    ELSE IF t.pos = "created"
    THEN SendMessage([s EXCEPT !.tk[w].pos = "stream"], t.client_id,
                     Event("chat_status", t.gen, 0))
    ELSE IF t.pos = "stream" /\ up # "end"
    THEN SendMessage([s EXCEPT !.tk[w].chunks = t.chunks + 1,
                               !.tk[w].failed = (up = "failure")],
                     t.client_id, Event("partial", t.gen, t.chunks + 1))
    ELSE IF t.pos = "stream"
    THEN SendMessage([s EXCEPT !.tk[w].pos = "finishing"], t.client_id,
                     Event("complete", t.gen, t.chunks))
    ELSE [s EXCEPT !.tk[w].pos = "done"]

TaskStep(w, up, gone) ==
    /\ task[w].pos \in {"created", "stream", "finishing"}
    /\ up # "end" => (task[w].pos = "stream" /\ ~task[w].must_cancel /\ ~task[w].failed)
    /\ up = "fragment" => task[w].chunks < MaxChunks
    /\ gone => (CanGo(task[w].client_id) /\ ~task[w].must_cancel /\ task[w].pos # "finishing")
    /\ Apply(StreamStep(PeerGone(gone, task[w].client_id), w, up))
    /\ UNCHANGED <<pc, inbox, gens, inputs>>

\* the except clause writing the cancelled event to the handler's own transport
\* instead of going through send_message
AwaitStreamTask_Direct(s, w) ==
    LET t == s.tk[w] IN
    IF t.pos = "cancelled"
    THEN [s EXCEPT !.tk[w].pos = "joined",
                   !.dl[w] = IF s.al[w] THEN Append(@, Event("cancelled", t.gen, 0)) ELSE @]
    ELSE Cleanup([s EXCEPT !.tk[w] = Forget(t)], t.client_id)

\* _handle_chat_message from `await stream_task` on: the except clause sends the
\* cancelled event; otherwise the finally block runs at once.
AwaitStreamTask(s, w) ==
    LET t == s.tk[w] IN
    IF t.pos = "cancelled"
    THEN SendMessage([s EXCEPT !.tk[w].pos = "joined"], t.client_id,
                     Event("cancelled", t.gen, 0))
    ELSE Cleanup([s EXCEPT !.tk[w] = Forget(t)], t.client_id)

HandlerResume(w, gone) ==
    /\ pc[w] = "await_stream"
    /\ task[w].pos \in {"done", "cancelled"}
    /\ gone => (CanGo(task[w].client_id) /\ task[w].pos = "cancelled")
    /\ Apply(AwaitStreamTask(PeerGone(gone, task[w].client_id), w))
    /\ pc' = [pc EXCEPT ![w] = IF task[w].pos = "cancelled" THEN "finally" ELSE "receive"]
    /\ UNCHANGED <<inbox, gens, inputs>>

\* _handle_chat_message resumes from sending the cancelled event: the finally block.
HandlerFinally(w) ==
    /\ pc[w] = "finally"
    /\ Apply(Cleanup([Cur EXCEPT !.tk[w] = Forget(task[w])], task[w].client_id))
    /\ pc' = [pc EXCEPT ![w] = "receive"]
    /\ UNCHANGED <<inbox, gens, inputs>>

\* stop_generation without the has_active_stream check
StopAnswer_Unchecked(client_id) == [client_id |-> client_id, status |-> "stopped"]

\* POST /stop (api/chat.py stop_generation)
StopAnswer(client_id) ==
    IF ~GetClientStreamStatus(client_id).has_active_stream
    THEN [client_id |-> client_id, status |-> "400"]
    ELSE [client_id |-> client_id, status |-> "stopped"]

\* stop_generation answering "stopped" without the _handle_stop_generation call
StopEndpoint_NoHandler(client_id, gone) ==
    /\ inputs < MaxInputs
    /\ inputs' = inputs + 1
    /\ ~gone
    /\ http' = StopAnswer(client_id)
    /\ UNCHANGED chat_vars
    /\ UNCHANGED <<active_connections, connection_metadata, active_streams,
                   task, delivered, alive, broadcast_iter>>
    /\ UNCHANGED <<pc, inbox, gens, shutdown>>

StopEndpoint(client_id, gone) ==
    /\ inputs < MaxInputs
    /\ inputs' = inputs + 1
    /\ gone => (CanGo(client_id) /\ client_id \in DOMAIN active_streams)
    /\ http' = StopAnswer(client_id)
    /\ UNCHANGED chat_vars
    /\ IF StopAnswer(client_id).status = "400"
       THEN UNCHANGED <<active_connections, connection_metadata, active_streams,
                        task, delivered, alive, broadcast_iter>>
       ELSE ApplyManager(HandleStopGeneration(PeerGone(gone, client_id), client_id))
    /\ UNCHANGED <<pc, inbox, gens, shutdown>>

\* ------------------------------------------------------------ broadcast
LiveSize(d) == Cardinality(Keys(d))

\* The entry the iterator yields next that is not excluded: entries in `exclude`
\* are passed over without a suspension.  0 when the iterator is exhausted.
NextTarget(d, it) ==
    LET rest == {i \in DOMAIN d : i > it.pos /\ d[i].id # NoId /\ d[i].id \notin it.exclude}
    IN IF rest = {} THEN 0 ELSE CHOOSE i \in rest : \A j \in rest : i <= j

\* WebSocketManager.broadcast from one suspension to the next: the iterator's
\* next() raises RuntimeError when the dict's size is no longer the size it had when
\* the iteration began; otherwise the payload is sent on the entry's transport, and
\* a send that raises is answered by disconnect(websocket).
BroadcastNext(s, gone) ==
    IF s.it.used # LiveSize(s.ac)
    THEN [s EXCEPT !.it.state = "raised"]
    ELSE LET i == NextTarget(s.ac, s.it) IN
         IF i = 0
         THEN [s EXCEPT !.it.state = "returned"]
         ELSE LET websocket == s.ac[i].ws
                  s1 == [s EXCEPT !.it.pos = i, !.al[websocket] = @ /\ ~gone]
              IN IF s1.al[websocket]
                 THEN [s1 EXCEPT !.dl[websocket] = Append(@, Event("broadcast", 0, 0)),
                                 !.it.sent = @ \cup {websocket}]
                 ELSE Disconnect(s1, websocket)

\* The peer of the transport the iterator yields next goes away before the send.
CanGoNext(it) ==
    /\ it.used = LiveSize(active_connections)
    /\ NextTarget(active_connections, it) # 0
    /\ alive[active_connections[NextTarget(active_connections, it)].ws]

Excludes == {{}, {"a"}}
\* targets and sent record, for the properties below, the transports registered
\* and not excluded when the broadcast began and those the payload was written to.
NewIter(exclude) ==
    [state |-> "iter", pos |-> 0, used |-> LiveSize(active_connections), exclude |-> exclude,
     targets |-> {active_connections[i].ws : i \in {j \in DOMAIN active_connections :
                         active_connections[j].id \notin exclude \cup {NoId}}},
     sent |-> {}]

\* broadcast is called: the iterator is created and the loop runs to its first send.
BroadcastStart(exclude, gone) ==
    /\ broadcast_iter.state # "iter"
    /\ inputs < MaxInputs
    /\ inputs' = inputs + 1
    /\ gone => CanGoNext(NewIter(exclude))
    /\ Apply(BroadcastNext([Cur EXCEPT !.it = NewIter(exclude)], gone))
    /\ UNCHANGED <<pc, inbox, gens>>

\* broadcast resumes from a send.
BroadcastStep(gone) ==
    /\ broadcast_iter.state = "iter"
    /\ gone => CanGoNext(broadcast_iter)
    /\ Apply(BroadcastNext(Cur, gone))
    /\ UNCHANGED <<pc, inbox, gens, inputs>>

\* ---------------------------------------------------------- disconnect_all
\* for task in self.active_streams.values(): task.cancel()
RECURSIVE CancelAll(_, _)
CancelAll(tk, ws) ==
    IF ws = {} THEN tk
    ELSE LET w == CHOOSE x \in ws : TRUE IN CancelAll(Cancel(tk, w), ws \ {w})

\* list(self.active_connections.keys())
KeyList(d) == [i \in DOMAIN Compact(d) |-> Compact(d)[i].id]

\* disconnect_all's loop from the top of an iteration to `await websocket.close()`:
\* self.active_connections[client_id] raises KeyError when the entry was deleted
\* while an earlier close was awaited; close() ends the transport.
CloseNext(s, sd) ==
    IF sd.todo = <<>> THEN [s |-> s, sd |-> [sd EXCEPT !.state = "returned", !.cur = NoId]]
    ELSE LET client_id == Head(sd.todo) IN
         IF client_id \notin Keys(s.ac)
         THEN [s |-> s, sd |-> [sd EXCEPT !.state = "raised", !.cur = NoId]]
         ELSE [s |-> [s EXCEPT !.al[Get(s.ac, client_id)] = FALSE],
               sd |-> [sd EXCEPT !.state = "closing", !.cur = client_id, !.todo = Tail(@)]]

\* disconnect_all is called: every task in active_streams is cancelled, the map is
\* cleared, the keys are listed and the first transport is closed.
DisconnectAllStart ==
    /\ shutdown.state = "idle"
    /\ LET s == [Cur EXCEPT !.tk = CancelAll(task, {active_streams[c] : c \in DOMAIN active_streams}),
                            !.st = EmptyMap]
           sd == [NoShutdown EXCEPT
                     !.todo = KeyList(active_connections),
                     !.ids = Keys(active_connections),
                     !.sockets = {Get(active_connections, c) : c \in Keys(active_connections)},
                     !.tasks = {w \in WebSockets : task[w].pos \in {"created", "stream", "finishing"}}]
           r == CloseNext(s, sd)
       IN ApplyManager(r.s) /\ shutdown' = r.sd
    /\ http' = NoAnswer
    /\ UNCHANGED chat_vars
    /\ UNCHANGED <<pc, inbox, gens, inputs>>

\* disconnect_all resumes from close(): the two del statements (KeyError when the
\* entry is gone), then the next iteration.
DisconnectAllStep ==
    /\ shutdown.state = "closing"
    /\ LET client_id == shutdown.cur IN
       IF client_id \notin Keys(active_connections)
       THEN /\ shutdown' = [shutdown EXCEPT !.state = "raised", !.cur = NoId]
            /\ UNCHANGED <<active_connections, connection_metadata, active_streams, task,
                           delivered, alive, broadcast_iter>>
       ELSE LET s == [Cur EXCEPT !.ac = DictDel(active_connections, client_id),
                                 !.md = MapDel(connection_metadata, client_id)]
                r == CloseNext(s, shutdown)
            IN ApplyManager(r.s) /\ shutdown' = r.sd
    /\ http' = NoAnswer
    /\ UNCHANGED chat_vars
    /\ UNCHANGED <<pc, inbox, gens, inputs>>

Next ==
    \/ \E w \in StreamSockets : \E id \in Suggested[w] : Connect(w, id)
    \/ \E w \in StreamSockets, m \in Messages : ClientSend(w, m)
    \/ \E w \in StreamSockets, gone \in BOOLEAN : Receive(w, gone)
    \/ \E w \in StreamSockets : ReceiveDisconnect(w)
    \/ \E w \in StreamSockets, up \in Upstream \ {"failure"}, gone \in BOOLEAN :
          TaskStep(w, up, gone)
    \/ \E w \in StreamSockets, gone \in BOOLEAN : HandlerResume(w, gone)
    \/ \E w \in StreamSockets : HandlerFinally(w)
    \/ \E client_id \in ClientIds, gone \in BOOLEAN : StopEndpoint(client_id, gone)

Spec == Init /\ [][Next]_vars

\* Two endpoints whose clients also write frames the dispatch table does not serve.
NextRouter ==
    \/ \E w \in StreamSockets : \E id \in Suggested[w] : Connect(w, id)
    \/ \E w \in StreamSockets, m \in OtherMessages \cup {[type |-> "chat", model |-> TRUE]} :
          ClientSend(w, m)
    \/ \E w \in StreamSockets, gone \in BOOLEAN : Receive(w, gone)
    \/ \E w \in StreamSockets : ReceiveDisconnect(w)
    \/ \E w \in StreamSockets, up \in Upstream \ {"failure"}, gone \in BOOLEAN :
          TaskStep(w, up, gone)
    \/ \E w \in StreamSockets, gone \in BOOLEAN : HandlerResume(w, gone)
    \/ \E w \in StreamSockets : HandlerFinally(w)

SpecRouter == Init /\ [][NextRouter]_vars

\* Two endpoints chatting while disconnect_all is called once.
NextShutdown ==
    \/ \E w \in StreamSockets : \E id \in Suggested[w] : Connect(w, id)
    \/ \E w \in StreamSockets : ClientSend(w, [type |-> "chat", model |-> TRUE])
    \/ \E w \in StreamSockets, gone \in BOOLEAN : Receive(w, gone)
    \/ \E w \in StreamSockets : ReceiveDisconnect(w)
    \/ \E w \in StreamSockets, up \in Upstream \ {"failure"}, gone \in BOOLEAN :
          TaskStep(w, up, gone)
    \/ \E w \in StreamSockets, gone \in BOOLEAN : HandlerResume(w, gone)
    \/ \E w \in StreamSockets : HandlerFinally(w)
    \/ DisconnectAllStart
    \/ DisconnectAllStep

SpecShutdown == Init /\ [][NextShutdown]_vars

\* One endpoint whose generations may meet an upstream failure.
NextUpstream ==
    \/ Connect("w1", "a")
    \/ \E m \in Messages : ClientSend("w1", m)
    \/ \E gone \in BOOLEAN : Receive("w1", gone)
    \/ ReceiveDisconnect("w1")
    \/ \E up \in Upstream, gone \in BOOLEAN : TaskStep("w1", up, gone)
    \/ \E gone \in BOOLEAN : HandlerResume("w1", gone)
    \/ HandlerFinally("w1")
    \/ \E gone \in BOOLEAN : StopEndpoint("a", gone)

SpecUpstream == Init /\ [][NextUpstream]_vars

\* The registry alone: three endpoints connect and leave while payloads are broadcast.
NextBroadcast ==
    \/ \E w \in WebSockets : \E id \in Suggested[w] : Connect(w, id)
    \/ \E w \in WebSockets : ReceiveDisconnect(w)
    \/ \E exclude \in Excludes, gone \in BOOLEAN : BroadcastStart(exclude, gone)
    \/ \E gone \in BOOLEAN : BroadcastStep(gone)

SpecBroadcast == Init /\ [][NextBroadcast]_vars

\* ============================================================ api/chat.py
\* The conversation store and the handlers of the chat router.  A handler that
\* awaits OllamaService.stream_chat is two steps: up to the await, and from the end
\* of the stream to its return; every other handler is one step.  `now` advances
\* whenever a handler stores the instant datetime.now() gave it.

MaxCalls == 3       \* calls of the chat API that write to the store in one run
MaxFragments == 2   \* fragments one call of stream_chat yields at most
MaxInt == 1         \* largest integer a query parameter takes

None == "None"
Absent == "<absent>"                        \* the key is not in the dict
ConversationIds == <<"c1", "c2", "c3", "c4">>   \* what str(uuid.uuid4()) returns, call by call
MissingId == "c0"                           \* an id no conversation was stored under
Uuid4 == ConversationIds[uuids + 1]
Position(id) == CHOOSE i \in DOMAIN ConversationIds : ConversationIds[i] = id

\* Optional[int] query parameters: <<>> is None, <<k>> the integer k
Ints == (0 - 1)..MaxInt
OptionalInts == {<<>>} \cup {<<k>> : k \in Ints}

\* the fragments a call of stream_chat yields, in order
Fragment(i) == IF i = 1 THEN "x" ELSE IF i = 2 THEN "y" ELSE "z"
Streams == {[i \in 1..n |-> Fragment(i)] : n \in 0..MaxFragments}

\* ChatMessage(...).dict(), without its timestamp
NoMetadata == [model |-> None, regenerated |-> FALSE]
ChatMessage(role, content, metadata) == [role |-> role, content |-> content, metadata |-> metadata]

\* the bodies of ConversationCreate and of the update query
ConversationCreates == {[title |-> None, project_id |-> None],
                        [title |-> "T", project_id |-> "p"]}
Updates == {[title |-> "T2", system_prompt |-> None],
            [title |-> None, system_prompt |-> "s"]}

\* Python's s[start:stop] for integers start and stop
Index(i, n) == IF i < 0 THEN (IF i + n < 0 THEN 0 ELSE i + n) ELSE IF i > n THEN n ELSE i
Slice(s, start, stop) == SubSeq(s, Index(start, Len(s)) + 1, Index(stop, Len(s)))

\* response_text = ""; async for chunk in stream_chat(...): response_text += chunk
ResponseText_LastOnly(response_text, chunks) ==
    IF chunks = <<>> THEN response_text ELSE chunks[Len(chunks)]

RECURSIVE ResponseText(_, _)
ResponseText(response_text, chunks) ==
    IF chunks = <<>> THEN response_text
    ELSE ResponseText(response_text \o Head(chunks), Tail(chunks))

\* for i in range(len(messages) - 1, -1, -1): the position (from 1) of the last
\* message whose role is "user", 0 when last_user_idx stays None
RECURSIVE LastUserIdx(_, _)
LastUserIdx(messages, i) ==
    IF i = 0 THEN 0
    ELSE IF messages[i].role = "user" THEN i ELSE LastUserIdx(messages, i - 1)

\* messages[:last_user_idx + 1]
Truncated_KeepAll(messages) == messages

Truncated(messages) == Slice(messages, 0, LastUserIdx(messages, Len(messages)))

\* original["messages"][:from_message_index] if from_message_index
\* else original["messages"].copy()
ForkMessages(messages, from_message_index) ==
    IF from_message_index # <<>> /\ from_message_index[1] # 0
    THEN Slice(messages, 0, from_message_index[1])
    ELSE messages

\* context = [] and, for msg in conversation["messages"][-10:], the role and content
\* of msg appended to it (no project is bound to the request)
HistoryWindow == 10
Context(messages) ==
    LET last == Slice(messages, 0 - HistoryWindow, Len(messages))
    IN [i \in DOMAIN last |-> [role |-> last[i].role, content |-> last[i].content]]

\* x.get("updated_at", x["created_at"])
SortKey(conv) == IF conv.updated_at = <<>> THEN conv.created_at ELSE conv.updated_at[1]

\* sorted(..., reverse=True) over the dict's values: largest key first, equal keys in
\* insertion order
RECURSIVE Sorted(_, _)
Sorted(store, ids) ==
    IF ids = {} THEN <<>>
    ELSE LET first == CHOOSE a \in ids : \A b \in ids :
                         \/ SortKey(store[a]) > SortKey(store[b])
                         \/ /\ SortKey(store[a]) = SortKey(store[b])
                            /\ Position(a) <= Position(b)
         IN <<first>> \o Sorted(store, ids \ {first})

\* the lifespan handler has run; requests are served from then on
Serving == ollama_service # "starting"
\* the ids a caller names: those in the store and one that is not
Targets == DOMAIN conversations \cup {MissingId}
\* requests without its i-th element
Without(s, i) == SubSeq(s, 1, i - 1) \o SubSeq(s, i + 1, Len(s))

\* raise HTTPException(status_code=status): nothing was written
Refuse(op, status, id) ==
    /\ response' = [op |-> op, status |-> status, id |-> id]
    /\ UNCHANGED <<ollama_service, conversations, requests, uuids, now, calls>>

\* main.py lifespan: the services are registered unless startup raised before
Lifespan(ok) ==
    /\ ollama_service = "starting"
    /\ ollama_service' = IF ok THEN "registered" ELSE "unavailable"
    /\ UNCHANGED <<conversations, requests, uuids, now, calls, response>>
    /\ UNCHANGED ws_vars

\* POST /conversations
CreateConversation(c) ==
    /\ Serving
    /\ calls < MaxCalls
    /\ conversations' = MapSet(conversations, Uuid4,
          [id |-> Uuid4,
           title |-> IF c.title = None THEN "Conversation " \o ToString(now) ELSE c.title,
           created_at |-> now, updated_at |-> <<now>>, model |-> "m",
           project_id |-> c.project_id, system_prompt |-> None,
           messages |-> <<>>, forked_from |-> Absent])
    /\ uuids' = uuids + 1
    /\ now' = now + 1
    /\ calls' = calls + 1
    /\ response' = [op |-> "create", status |-> 200, id |-> Uuid4]
    /\ UNCHANGED <<ollama_service, requests>>
    /\ UNCHANGED ws_vars

\* POST /message up to the stream_chat loop (stream false) or to its return
SendChatMessage(conversation_id, stream) ==
    /\ Serving
    /\ calls < MaxCalls
    /\ IF ollama_service # "registered" THEN Refuse("send", 503, conversation_id)
       ELSE IF conversation_id # None /\ conversation_id \notin DOMAIN conversations
       THEN Refuse("send", 404, conversation_id)
       ELSE LET id == IF conversation_id = None THEN Uuid4 ELSE conversation_id
                conversation ==
                    IF conversation_id = None
                    THEN [id |-> id, title |-> Absent, created_at |-> now, updated_at |-> <<>>,
                          model |-> "m", project_id |-> None, system_prompt |-> None,
                          messages |-> <<>>, forked_from |-> Absent]
                    ELSE conversations[id]
                user_message == ChatMessage("user", "q", NoMetadata)
            IN
            /\ conversations' = MapSet(conversations, id,
                  [conversation EXCEPT !.messages = Append(@, user_message)])
            /\ uuids' = IF conversation_id = None THEN uuids + 1 ELSE uuids
            /\ now' = IF conversation_id = None THEN now + 1 ELSE now
            /\ calls' = calls + 1
            /\ IF stream
               THEN /\ response' = [op |-> "send", status |-> 200, id |-> id,
                                    given |-> conversation_id, streaming |-> TRUE]
                    /\ UNCHANGED requests
               ELSE /\ response' = [op |-> "send", status |-> 0, id |-> id,
                                    given |-> conversation_id, streaming |-> FALSE]
                    /\ requests' = Append(requests,
                          [op |-> "send", id |-> id,
                           context |-> Context(Append(conversation.messages, user_message))])
            /\ UNCHANGED ollama_service
    /\ UNCHANGED ws_vars

\* send_chat_message appending the reply to the forks of the conversation as well,
\* as it would if a fork shared the message list of its source
SendChatMessageResume_Aliased(i, out) ==
    /\ requests[i].op = "send"
    /\ LET id == requests[i].id
           response_text == ResponseText("", out)
           assistant_message == ChatMessage("assistant", response_text,
                                            [model |-> "m", regenerated |-> FALSE])
       IN
       /\ conversations' = [c \in DOMAIN conversations |->
              IF c = id \/ conversations[c].forked_from = id
              THEN [conversations[c] EXCEPT !.messages = Append(@, assistant_message)]
              ELSE conversations[c]]
       /\ response' = [op |-> "send", status |-> 200, id |-> id, given |-> id,
                       streaming |-> FALSE, chunks |-> out, message |-> assistant_message]
    /\ requests' = Without(requests, i)
    /\ UNCHANGED <<ollama_service, uuids, now, calls>>
    /\ UNCHANGED ws_vars

\* POST /message from the end of the stream, which yielded the fragments `out`: the
\* assistant message is appended to the dict the handler holds, which is the
\* stored one unless it was deleted meanwhile
SendChatMessageResume(i, out) ==
    /\ requests[i].op = "send"
    /\ LET id == requests[i].id
           response_text == ResponseText("", out)
           assistant_message == ChatMessage("assistant", response_text,
                                            [model |-> "m", regenerated |-> FALSE])
       IN
       /\ conversations' = IF id \in DOMAIN conversations
                           THEN [conversations EXCEPT ![id].messages = Append(@, assistant_message)]
                           ELSE conversations
       /\ response' = [op |-> "send", status |-> 200, id |-> id, given |-> id,
                       streaming |-> FALSE, chunks |-> out, message |-> assistant_message]
    /\ requests' = Without(requests, i)
    /\ UNCHANGED <<ollama_service, uuids, now, calls>>
    /\ UNCHANGED ws_vars

\* GET /conversations; the answer names the conversations by their ids
ListConversations(project_id, limit, offset) ==
    /\ Serving
    /\ LET filtered_conversations == {id \in DOMAIN conversations :
                  project_id = None \/ conversations[id].project_id = project_id}
           sorted_conversations == Sorted(conversations, filtered_conversations)
           total == Len(sorted_conversations)
           paginated == Slice(sorted_conversations, offset, offset + limit)
       IN response' = [op |-> "list", status |-> 200, project_id |-> project_id,
                       conversations |-> paginated, total |-> total,
                       limit |-> limit, offset |-> offset]
    /\ UNCHANGED <<ollama_service, conversations, requests, uuids, now, calls>>
    /\ UNCHANGED ws_vars

\* GET /conversations/{conversation_id}
GetConversation(conversation_id) ==
    /\ Serving
    /\ IF conversation_id \notin DOMAIN conversations
       THEN Refuse("get", 404, conversation_id)
       ELSE Refuse("get", 200, conversation_id)
    /\ UNCHANGED ws_vars

\* DELETE /conversations/{conversation_id}
DeleteConversation(conversation_id) ==
    /\ Serving
    /\ calls < MaxCalls
    /\ IF conversation_id \notin DOMAIN conversations
       THEN Refuse("delete", 404, conversation_id)
       ELSE /\ conversations' = MapDel(conversations, conversation_id)
            /\ calls' = calls + 1
            /\ response' = [op |-> "delete", status |-> 200, id |-> conversation_id]
            /\ UNCHANGED <<ollama_service, requests, uuids, now>>
    /\ UNCHANGED ws_vars

\* PUT /conversations/{conversation_id}
UpdateConversation(conversation_id, u) ==
    /\ Serving
    /\ calls < MaxCalls
    /\ IF conversation_id \notin DOMAIN conversations
       THEN Refuse("update", 404, conversation_id)
       ELSE /\ conversations' = [conversations EXCEPT ![conversation_id] =
                  [@ EXCEPT !.title = IF u.title # None THEN u.title ELSE @,
                            !.system_prompt = IF u.system_prompt # None
                                              THEN u.system_prompt ELSE @,
                            !.updated_at = <<now>>]]
            /\ now' = now + 1
            /\ calls' = calls + 1
            /\ response' = [op |-> "update", status |-> 200, id |-> conversation_id]
            /\ UNCHANGED <<ollama_service, requests, uuids>>
    /\ UNCHANGED ws_vars

\* clear_conversation deleting the conversation instead of emptying it
ClearConversation_Delete(conversation_id) ==
    /\ Serving
    /\ calls < MaxCalls
    /\ IF conversation_id \notin DOMAIN conversations
       THEN Refuse("clear", 404, conversation_id)
       ELSE /\ conversations' = MapDel(conversations, conversation_id)
            /\ now' = now + 1
            /\ calls' = calls + 1
            /\ response' = [op |-> "clear", status |-> 200, id |-> conversation_id]
            /\ UNCHANGED <<ollama_service, requests, uuids>>
    /\ UNCHANGED ws_vars

\* POST /conversations/{conversation_id}/clear
ClearConversation(conversation_id) ==
    /\ Serving
    /\ calls < MaxCalls
    /\ IF conversation_id \notin DOMAIN conversations
       THEN Refuse("clear", 404, conversation_id)
       ELSE /\ conversations' = [conversations EXCEPT ![conversation_id] =
                  [@ EXCEPT !.messages = <<>>, !.updated_at = <<now>>]]
            /\ now' = now + 1
            /\ calls' = calls + 1
            /\ response' = [op |-> "clear", status |-> 200, id |-> conversation_id]
            /\ UNCHANGED <<ollama_service, requests, uuids>>
    /\ UNCHANGED ws_vars

\* POST /conversations/{conversation_id}/fork
ForkConversation(conversation_id, from_message_index) ==
    /\ Serving
    /\ calls < MaxCalls
    /\ IF conversation_id \notin DOMAIN conversations
       THEN Refuse("fork", 404, conversation_id)
       ELSE LET original == conversations[conversation_id]
                new_id == Uuid4
            IN
            /\ conversations' = MapSet(conversations, new_id,
                  [id |-> new_id,
                   title |-> (IF original.title = Absent THEN "Conversation"
                              ELSE original.title) \o " (Fork)",
                   created_at |-> now, updated_at |-> <<now>>,
                   model |-> original.model, project_id |-> original.project_id,
                   system_prompt |-> original.system_prompt,
                   messages |-> ForkMessages(original.messages, from_message_index),
                   forked_from |-> conversation_id])
            /\ uuids' = uuids + 1
            /\ now' = now + 1
            /\ calls' = calls + 1
            /\ response' = [op |-> "fork", status |-> 200, id |-> conversation_id,
                            from_message_index |-> from_message_index, forked |-> new_id]
            /\ UNCHANGED <<ollama_service, requests>>
    /\ UNCHANGED ws_vars

\* regenerate_last_response looking the conversation up before the service
RegenerateLastResponse_LookupFirst(conversation_id) ==
    /\ Serving
    /\ calls < MaxCalls
    /\ IF conversation_id \notin DOMAIN conversations
       THEN Refuse("regenerate", 404, conversation_id)
       ELSE IF ollama_service # "registered" THEN Refuse("regenerate", 503, conversation_id)
       ELSE LET messages == conversations[conversation_id].messages IN
            IF LastUserIdx(messages, Len(messages)) = 0
            THEN Refuse("regenerate", 400, conversation_id)
            ELSE /\ conversations' = [conversations EXCEPT
                                         ![conversation_id].messages = Truncated(messages)]
                 /\ requests' = Append(requests, [op |-> "regenerate", id |-> conversation_id,
                                                  messages |-> messages])
                 /\ calls' = calls + 1
                 /\ response' = [op |-> "regenerate", status |-> 0, id |-> conversation_id]
                 /\ UNCHANGED <<ollama_service, uuids, now>>
    /\ UNCHANGED ws_vars

\* POST /regenerate/{conversation_id} up to the stream_chat loop
RegenerateLastResponse(conversation_id) ==
    /\ Serving
    /\ calls < MaxCalls
    /\ IF ollama_service # "registered" THEN Refuse("regenerate", 503, conversation_id)
       ELSE IF conversation_id \notin DOMAIN conversations
       THEN Refuse("regenerate", 404, conversation_id)
       ELSE LET messages == conversations[conversation_id].messages IN
            IF LastUserIdx(messages, Len(messages)) = 0
            THEN Refuse("regenerate", 400, conversation_id)
            ELSE /\ conversations' = [conversations EXCEPT
                                         ![conversation_id].messages = Truncated(messages)]
                 /\ requests' = Append(requests, [op |-> "regenerate", id |-> conversation_id,
                                                  messages |-> messages])
                 /\ calls' = calls + 1
                 /\ response' = [op |-> "regenerate", status |-> 0, id |-> conversation_id]
                 /\ UNCHANGED <<ollama_service, uuids, now>>
    /\ UNCHANGED ws_vars

\* POST /regenerate/{conversation_id} from the end of the stream, which yielded the
\* fragments `out`
RegenerateLastResponseResume(i, out) ==
    /\ requests[i].op = "regenerate"
    /\ LET id == requests[i].id
           response_text == ResponseText("", out)
           assistant_message == ChatMessage("assistant", response_text,
                                            [model |-> "m", regenerated |-> TRUE])
       IN
       /\ conversations' = IF id \in DOMAIN conversations
                           THEN [conversations EXCEPT ![id] =
                                   [@ EXCEPT !.messages = Append(@, assistant_message),
                                             !.updated_at = <<now>>]]
                           ELSE conversations
       /\ response' = [op |-> "regenerate", status |-> 200, id |-> id,
                       chunks |-> out, message |-> assistant_message]
    /\ requests' = Without(requests, i)
    /\ now' = now + 1
    /\ UNCHANGED <<ollama_service, uuids, calls>>
    /\ UNCHANGED ws_vars

\* The chat router: conversations are created, written, read and removed by calls
\* that interleave at the awaits of stream_chat.
NextConversations ==
    \/ \E ok \in BOOLEAN : Lifespan(ok)
    \/ CreateConversation([title |-> None, project_id |-> None])
    \/ \E id \in Targets \cup {None}, stream \in BOOLEAN : SendChatMessage(id, stream)
    \/ \E i \in DOMAIN requests, out \in Streams : SendChatMessageResume(i, out)
    \/ \E id \in Targets : GetConversation(id)
    \/ \E id \in Targets : DeleteConversation(id)
    \/ \E id \in Targets, u \in Updates : UpdateConversation(id, u)
    \/ \E id \in Targets : ClearConversation(id)
    \/ \E id \in Targets, k \in OptionalInts : ForkConversation(id, k)
    \/ \E id \in Targets : RegenerateLastResponse(id)
    \/ \E i \in DOMAIN requests, out \in Streams : RegenerateLastResponseResume(i, out)

SpecConversations == Init /\ [][NextConversations]_vars

\* A suspended call ends with the exception thrown into it at the await of
\* stream_chat: neither handler has a try around the loop, so nothing after the
\* loop runs and the server answers 500.  stream_chat turns the failures of the
\* upstream into text; what leaves it is what `except Exception` lets through
\* (CancelledError when the serving task is cancelled) or what a registered
\* service other than OllamaService raises.
StreamChatRaises(i) ==
    /\ i \in DOMAIN requests
    /\ response' = [op |-> requests[i].op, status |-> 500, id |-> requests[i].id]
    /\ requests' = Without(requests, i)
    /\ UNCHANGED <<ollama_service, conversations, uuids, now, calls>>
    /\ UNCHANGED ws_vars

\* Calls that generate a reply, some of which fail in the adapter.
NextGeneration ==
    \/ Lifespan(TRUE)
    \/ CreateConversation([title |-> None, project_id |-> None])
    \/ \E id \in Targets \cup {None}, stream \in BOOLEAN : SendChatMessage(id, stream)
    \/ \E i \in DOMAIN requests, out \in Streams : SendChatMessageResume(i, out)
    \/ \E id \in Targets : RegenerateLastResponse(id)
    \/ \E i \in DOMAIN requests, out \in Streams : RegenerateLastResponseResume(i, out)
    \/ \E i \in DOMAIN requests : StreamChatRaises(i)

SpecGeneration == Init /\ [][NextGeneration]_vars

\* Non-streaming sends alone, overlapping at the await of stream_chat.
NextOverlap ==
    \/ Lifespan(TRUE)
    \/ \E id \in Targets \cup {None} : SendChatMessage(id, FALSE)
    \/ \E i \in DOMAIN requests, out \in Streams : SendChatMessageResume(i, out)

SpecOverlap == Init /\ [][NextOverlap]_vars

\* The listing alone, over conversations that are created, edited and deleted.
NextListing ==
    \/ Lifespan(TRUE)
    \/ \E c \in ConversationCreates : CreateConversation(c)
    \/ \E id \in Targets, u \in Updates : UpdateConversation(id, u)
    \/ \E id \in Targets : DeleteConversation(id)
    \/ \E project_id \in {None, "p"}, limit \in Ints, offset \in Ints :
          ListConversations(project_id, limit, offset)

SpecListing == Init /\ [][NextListing]_vars

\* ================================================================ claims
Registered(w) == GetClientId(active_connections, w) # NoId
Terminal == {"complete", "cancelled", "error"}
\* this step takes the frame at the head of w's inbox off the transport
Consumes(w) == pc[w] = "receive" /\ inbox[w] # <<>> /\ inbox'[w] = Tail(inbox[w])
\* this step ends w's chat handler, on whichever exit path
HandlerReturns(w) == pc[w] \in {"await_stream", "finally"} /\ pc'[w] = "receive"
\* the events this step writes to w's transport
Added(w) == SubSeq(delivered'[w], Len(delivered[w]) + 1, Len(delivered'[w]))
Has(log, type, g) == \E i \in DOMAIN log : log[i].type = type /\ log[i].gen = g
\* the stop of generation g has been acknowledged to some client
Acked(g) == \E w \in WebSockets : \E i \in DOMAIN delivered[w] :
                delivered[w][i] = Event("generation_stopped", g, 1)
Running(w) == task[w].pos \in {"created", "stream", "finishing"}

\* C1: a chat frame a client writes while a generation of its connection is in
\* flight is answered with the busy error and starts no second generation.
C1_BusyWhileInFlight ==
    [][\A w \in WebSockets :
         (/\ Consumes(w) /\ Registered(w) /\ alive[w]
          /\ Head(inbox[w]).type = "chat" /\ Head(inbox[w]).model /\ Head(inbox[w]).during)
         => (gens' = gens /\ Has(Added(w), "error_busy", 0))]_vars

\* C2: when a generation has ended (complete, cancelled or error) the status of
\* its connection reads is_streaming = false, has_active_stream = false, and the
\* next chat frame of that connection starts a new generation.
C2_CleanupThenAccepted ==
    [][\A w \in WebSockets :
         /\ HandlerReturns(w) =>
              (/\ task[w].client_id \in DOMAIN connection_metadata'
                     => ~connection_metadata'[task[w].client_id].is_streaming
               /\ task[w].client_id \notin DOMAIN active_streams')
         /\ (/\ Consumes(w) /\ alive[w] /\ task[w].gen # 0
             /\ Head(inbox[w]).type = "chat" /\ Head(inbox[w]).model)
            => (gens' = gens + 1 /\ pc'[w] = "await_stream")]_vars

\* C3: while a generation is in flight the endpoint is back at its read loop, so a
\* stop_generation frame of the same connection is routed without waiting for the
\* generation to end.
C3_StopRoutedWhileGenerating ==
    \A w \in WebSockets :
        (InFlight(w) /\ inbox[w] # <<>> /\ Head(inbox[w]).type = "stop_generation")
        => pc[w] = "receive"

\* the events _stream_chat_response writes for its generation
GenerationEvents == {"chat_status", "partial", "complete", "cancelled"}

\* C4: once the stop of a generation has been acknowledged (generation_stopped
\* sent), no partial chat_response of that generation is delivered any more; the
\* only event the generation still delivers is the terminal cancelled event
\* (a repeated stop is acknowledged again; that is the stop's event).
C4_SilentAfterStopAck ==
    [][\A g \in 1..gens : Acked(g) =>
         \A w \in WebSockets : \A i \in DOMAIN Added(w) :
             (Added(w)[i].gen = g /\ Added(w)[i].type \in GenerationEvents)
                 => Added(w)[i].type = "cancelled"]_vars

C4_Witness ==
    \E w \in WebSockets : \E i, j, k \in DOMAIN delivered[w] :
        /\ i < j /\ j < k
        /\ delivered[w][i].type = "partial"
        /\ delivered[w][j] = Event("generation_stopped", delivered[w][i].gen, 1)
        /\ delivered[w][k] = Event("cancelled", delivered[w][i].gen, 0)

\* C5: every chat a client issues on a connection that stays open is answered by
\* a terminal event: when the chat handler returns and the peer is still there,
\* the peer has been sent complete, cancelled or error for that generation.
C5_TerminalDelivered ==
    [][\A w \in WebSockets :
         (HandlerReturns(w) /\ alive'[w]) =>
             \E i \in DOMAIN delivered'[w] :
                 delivered'[w][i].gen = task[w].gen /\ delivered'[w][i].type \in Terminal]_vars

\* C6: for every connection id the in-flight flag is set iff the id has an entry
\* in active_streams iff a generation task of that id is running.
C6_StatusConsistent ==
    \A c \in ClientIds :
        /\ GetClientStreamStatus(c).is_streaming = GetClientStreamStatus(c).has_active_stream
        /\ GetClientStreamStatus(c).has_active_stream
              = (\E w \in WebSockets : task[w].pos # "none" /\ task[w].client_id = c)

\* C7: at most one generation task is running per connection id.
C7_OneTaskPerId ==
    \A c \in ClientIds :
        Cardinality({w \in WebSockets : Running(w) /\ task[w].client_id = c}) <= 1

\* C8: accept never takes over the id of a live connection: the entries, session
\* state and tasks that exist are left as they are and the new connection is added
\* under an id of its own, with in-flight = false.
C8_AcceptKeepsExisting ==
    [][\A w \in WebSockets : (pc[w] = "init" /\ pc'[w] = "receive") =>
         /\ \A i \in DOMAIN active_connections : active_connections'[i] = active_connections[i]
         /\ Len(active_connections') = Len(active_connections) + 1
         /\ active_connections'[Len(active_connections')].ws = w
         /\ \A c \in DOMAIN connection_metadata : connection_metadata'[c] = connection_metadata[c]
         /\ ~connection_metadata'[GetClientId(active_connections', w)].is_streaming
         /\ active_streams' = active_streams /\ task' = task]_vars

\* C9: when a broadcast has ended, however it ended, every connection that was
\* registered and not excluded when it began, and is still there, has been sent
\* the payload, and a connection whose send raised is no longer registered.
C9_BroadcastIsolation ==
    broadcast_iter.state \in {"returned", "raised"} =>
        \A w \in broadcast_iter.targets :
            /\ (alive[w] /\ Registered(w)) => w \in broadcast_iter.sent
            /\ ~alive[w] => ~Registered(w)

\* C10: stop with no active generation is a no-op success on both paths: the
\* stop_generation frame and the stop-by-client-id endpoint answer without an
\* error and leave registry, session and task state unchanged.
StopFrameNoActive(w) ==
    /\ Consumes(w) /\ Registered(w) /\ Head(inbox[w]).type = "stop_generation"
    /\ GetClientId(active_connections, w) \notin DOMAIN active_streams
NoStateChange ==
    /\ active_connections' = active_connections
    /\ connection_metadata' = connection_metadata
    /\ active_streams' = active_streams
    /\ task' = task
StopCall(c) == inputs' = inputs + 1 /\ http'.client_id = c

\* C11: the stop-by-client-id endpoint answers "stopped" with the client id exactly
\* when has_active_stream is true for that id, and has then run the cancel handler
\* (cancel requested on the registered task, acknowledgement written to the id's
\* transport); otherwise it answers 400 and the handler has not run.
C11_StopEndpointAnswer ==
    [][\A c \in ClientIds : StopCall(c) =>
         IF GetClientStreamStatus(c).has_active_stream
         THEN /\ http' = [client_id |-> c, status |-> "stopped"]
              /\ task' = Cancel(task, active_streams[c])
              /\ \A w \in WebSockets :
                    (GetClientId(active_connections, w) = c /\ alive'[w]) =>
                        Added(w) = <<Event("generation_stopped", task[active_streams[c]].gen, 1)>>
         ELSE /\ http' = [client_id |-> c, status |-> "400"]
              /\ NoStateChange /\ delivered' = delivered]_vars

C11_Witness ==
    /\ http.status = "stopped"
    /\ \E w \in WebSockets :
          /\ task[w].must_cancel /\ task[w].client_id = http.client_id
          /\ Has(delivered[w], "generation_stopped", task[w].gen)

\* this step is websocket_endpoint's disconnect(w) for a registered connection
EndpointDisconnects(w) == pc[w] = "receive" /\ pc'[w] = "closed" /\ Registered(w)

\* C12: disconnect of a connection cancels the generation task registered for it
\* and removes its registry entry, session metadata and task handle; the registry
\* entry, session metadata and task of every other connection stay as they were.
C12_DisconnectLocal ==
    [][\A w \in WebSockets : EndpointDisconnects(w) =>
         LET c == GetClientId(active_connections, w) IN
         /\ c \notin Keys(active_connections')
         /\ c \notin DOMAIN connection_metadata'
         /\ c \notin DOMAIN active_streams'
         /\ task[w].client_id = c => task' = Cancel(task, w)
         /\ \A v \in WebSockets \ {w} :
               /\ task'[v] = task[v]
               /\ GetClientId(active_connections', v) = GetClientId(active_connections, v)
               /\ Registered(v) =>
                     connection_metadata'[GetClientId(active_connections, v)]
                         = connection_metadata[GetClientId(active_connections, v)]]_vars

\* this step calls send_message for w's connection and the transport send raises
SendFails(w) == alive[w] /\ ~alive'[w] /\ pc'[w] # "closed"
\* cancel() has been called on the task, or the task had already ended
CancelRequested(t) == t.must_cancel \/ t.pos \in {"none", "done", "cancelled", "joined"}

\* C13: a send_message whose transport send raises is treated as a disconnect: the
\* connection's registry entry, metadata and task handle are removed, cancel is
\* requested on its active task, and the caller goes on (the endpoint stays in its
\* read loop, the stop endpoint still answers "stopped").
C13_SendFailureDisconnects ==
    [][\A w \in WebSockets : SendFails(w) =>
         LET c == GetClientId(active_connections, w) IN
         /\ c # NoId
         /\ c \notin Keys(active_connections')
         /\ c \notin DOMAIN connection_metadata'
         /\ c \notin DOMAIN active_streams'
         /\ c \in DOMAIN active_streams => CancelRequested(task'[active_streams[c]])
         /\ pc'[w] \in {pc[w], "finally"}
         /\ \A c2 \in ClientIds : StopCall(c2) => http'.status = "stopped"]_vars

C13_Witness ==
    \E w \in WebSockets :
        /\ ~alive[w] /\ pc[w] = "await_stream" /\ ~Registered(w)
        /\ task[w].must_cancel /\ task[w].client_id \notin DOMAIN active_streams
        /\ Has(delivered[w], "chat_status", task[w].gen)

\* this step resumes w's streaming task, which is not cancelled and whose
\* client_id has no registry entry: every send_message it makes is addressed to
\* a removed connection
TaskSendsToRemoved(w) ==
    /\ Running(w) /\ ~task[w].must_cancel /\ task'[w] # task[w]
    /\ task[w].client_id \notin Keys(active_connections)
\* this step is the chat handler's send of the cancelled event, addressed to a
\* removed connection
HandlerSendsToRemoved(w) ==
    /\ pc[w] = "await_stream" /\ pc'[w] = "finally"
    /\ task[w].client_id \notin Keys(active_connections)
RegistryUnchanged ==
    /\ active_connections' = active_connections
    /\ connection_metadata' = connection_metadata
    /\ active_streams' = active_streams

\* C14: an event is written only to a transport that has a registry entry (or is
\* being given one by connect in this step); a send_message addressed to an id
\* without a registry entry writes nothing, changes no manager state and lets its
\* caller go on.
C14_NoSendAfterRemoval ==
    [][\A w \in WebSockets :
         /\ Added(w) # <<>> => (Registered(w) \/ (pc[w] = "init" /\ pc'[w] = "receive"))
         /\ TaskSendsToRemoved(w) =>
               /\ delivered' = delivered /\ RegistryUnchanged
               /\ \A v \in WebSockets \ {w} : task'[v] = task[v]
               /\ task'[w].pos \in {"stream", "finishing", "done"} /\ ~task'[w].must_cancel
         /\ HandlerSendsToRemoved(w) =>
               /\ delivered' = delivered /\ RegistryUnchanged
               /\ task' = [task EXCEPT ![w].pos = "joined"]]_vars

C14_Witness ==
    /\ pc["w1"] = "finally" /\ pc["w2"] = "init"
    /\ ~alive["w1"] /\ ~Registered("w1")
    /\ ~Acked(task["w1"].gen)
    /\ \A w \in WebSockets : ~Has(delivered[w], "cancelled", task["w1"].gen)

\* C15: a failure of the upstream adapter during a streaming chat reaches the
\* client as a terminal error event, not as fragment content followed by the
\* complete event: no complete event is sent for a generation whose upstream failed.
C15_UpstreamFailureIsError ==
    \A w \in WebSockets : task[w].failed =>
        \A v \in WebSockets : ~Has(delivered[v], "complete", task[w].gen)

\* the partial events of generation g written to transport w, in order
Partials(w, g) == SelectSeq(delivered[w], LAMBDA e : e.type = "partial" /\ e.gen = g)

\* C16: a client that is sent the complete event of a generation has been sent,
\* before it and in the order the upstream produced them, the partial events of
\* that generation, as many as the event's total_chunks says, and the generation
\* has exactly one complete event.
C16_OrderedThenComplete ==
    \A w \in WebSockets : \A k \in DOMAIN delivered[w] :
        delivered[w][k].type = "complete" =>
            LET g == delivered[w][k].gen
                N == delivered[w][k].n
            IN /\ Len(Partials(w, g)) = N
               /\ \A i \in 1..Len(Partials(w, g)) : Partials(w, g)[i].n = i
               /\ \A i \in DOMAIN delivered[w] :
                     (delivered[w][i].type = "partial" /\ delivered[w][i].gen = g) => i < k
               /\ \A v \in WebSockets : \A j \in DOMAIN delivered[v] :
                     (delivered[v][j].type = "complete" /\ delivered[v][j].gen = g)
                         => (v = w /\ j = k)

\* this step takes off w's transport a frame whose type (a string, or None when
\* the frame has none) is not in the dispatch table
UnknownFrame(w) == Consumes(w) /\ Head(inbox[w]).type \in {"bogus", "None"}

\* C17: a frame whose type is missing or not in the dispatch table is answered
\* with one error event naming the type, written to the transport the frame came
\* from and to no other; the connection stays registered and registry, session
\* and task state are as before.
C17_UnknownTypeAnswered ==
    [][\A w \in WebSockets : (UnknownFrame(w) /\ alive'[w]) =>
         /\ Added(w) = <<Event("Unknown message type: " \o Head(inbox[w]).type, 0, 0)>>
         /\ \A v \in WebSockets \ {w} : Added(v) = <<>>
         /\ Registered(w)'
         /\ NoStateChange]_vars

\* this step runs a handler that raises before it has changed anything
\* (_handle_config_update on a frame without data)
HandlerRaises(w) ==
    Consumes(w) /\ Registered(w) /\ Head(inbox[w]).type = "config_update"
\* this step ends w's chat handler with the KeyError of its finally block
FinallyRaises(w) ==
    HandlerReturns(w) /\ task[w].client_id \notin DOMAIN connection_metadata

\* C18: an exception raised by a message handler is answered with an error event
\* on the transport the frame came from; the endpoint stays in its read loop, the
\* connection is not removed, and no other connection's registry entry, session
\* state, task or transport is touched.
C18_HandlerErrorAnswered ==
    [][\A w \in WebSockets :
         /\ (HandlerRaises(w) /\ alive'[w]) =>
               /\ Added(w) = <<Event("error_handler", 0, 0)>>
               /\ \A v \in WebSockets \ {w} : Added(v) = <<>>
               /\ Registered(w)' /\ pc'[w] = "receive"
               /\ NoStateChange
         /\ (FinallyRaises(w) /\ alive'[w]) =>
               /\ Has(Added(w), "error_handler", 0)
               /\ \A v \in WebSockets \ {w} : Added(v) = <<>> /\ task'[v] = task[v]
               /\ pc'[w] = "receive"]_vars

\* C19: when disconnect_all has completed, every generation task that was running
\* when it was called has been cancelled, every transport registered then has
\* been closed, and registry, session metadata and active task map hold no entry
\* for any id registered then.
C19_DisconnectAllClears ==
    [][(shutdown.state # "returned" /\ shutdown'.state = "returned") =>
        /\ \A w \in shutdown'.tasks : Running(w)' => task'[w].must_cancel
        /\ \A w \in shutdown'.sockets : ~alive'[w]
        /\ \A c \in shutdown'.ids :
              /\ c \notin Keys(active_connections')
              /\ c \notin DOMAIN connection_metadata'
              /\ c \notin DOMAIN active_streams']_vars

\* this step writes the broadcast payload to w's transport
PayloadTo(w) == Has(Added(w), "broadcast", 0)

\* C20: a broadcast writes its payload exactly once to every registered
\* connection that is not excluded and never to an excluded one: no step of it
\* writes to an excluded connection or a second time to the same transport, and
\* when it ends with every connection it began with still registered and its
\* transport working, each of them has been sent the payload.
C20_BroadcastExactlyOnce ==
    [][/\ \A w \in WebSockets : PayloadTo(w) =>
             /\ Added(w) = <<Event("broadcast", 0, 0)>>
             /\ GetClientId(active_connections, w) \notin broadcast_iter'.exclude
             /\ broadcast_iter.state = "iter" => w \notin broadcast_iter.sent
       /\ (/\ broadcast_iter'.state \in {"returned", "raised"}
           /\ broadcast_iter' # broadcast_iter
           /\ \A w \in broadcast_iter'.targets : alive'[w] /\ Registered(w)')
          => broadcast_iter'.targets \subseteq broadcast_iter'.sent]_vars

\* ----------------------------------------------------- conversation claims
\* A step in which a call of the chat API arrives (it answers, or suspends in
\* stream_chat), and a step in which a suspended call returns.
Arrives(op) == response'.op = op /\ Len(requests') >= Len(requests)
Returns(op) == response'.op = op /\ Len(requests') < Len(requests)
\* the conversation id the caller named
Addressed == IF "given" \in DOMAIN response' THEN response'.given ELSE response'.id
OthersUnchanged(id) ==
    /\ DOMAIN conversations \ {id} = DOMAIN conversations' \ {id}
    /\ \A other \in DOMAIN conversations \ {id} : conversations'[other] = conversations[other]
Prefix(s, k) == [i \in 1..k |-> s[i]]
HasUser(messages) == \E i \in DOMAIN messages : messages[i].role = "user"
UpToLastUser(messages) ==
    LET last == CHOOSE i \in DOMAIN messages :
                    /\ messages[i].role = "user"
                    /\ \A j \in DOMAIN messages : j > i => messages[j].role # "user"
    IN Prefix(messages, last)
AppendedTo(old, new) == Len(new) = Len(old) + 1 /\ Prefix(new, Len(old)) = old
RECURSIVE Concat(_)
Concat(chunks) == IF chunks = <<>> THEN "" ELSE Head(chunks) \o Concat(Tail(chunks))
Min(a, b) == IF a < b THEN a ELSE b
Max(a, b) == IF a > b THEN a ELSE b

\* C21: a fork with from_message_index = k, 0 <= k <= N, stores a new conversation
\* holding exactly the first k of the source's N messages, titled with the fork
\* marker and with forked_from equal to the source id; a fork with no index copies
\* all N messages; the source conversation is unchanged.
C21_ForkCopiesPrefix ==
    [][(Arrives("fork") /\ response'.status = 200) =>
        LET source == conversations[response'.id]
            index == response'.from_message_index
            N == Len(source.messages)
        IN
        /\ response'.forked \notin DOMAIN conversations
        /\ response'.forked \in DOMAIN conversations'
        /\ LET forked == conversations'[response'.forked] IN
           /\ (index # <<>> /\ 0 <= index[1] /\ index[1] <= N)
                 => forked.messages = Prefix(source.messages, index[1])
           /\ index = <<>> => forked.messages = source.messages
           /\ forked.title = (IF source.title = Absent THEN "Conversation"
                              ELSE source.title) \o " (Fork)"
           /\ forked.forked_from = response'.id
        /\ OthersUnchanged(response'.forked)
    ]_vars

C23_PaginationLaw ==
    response.op = "list" =>
        LET T == Cardinality({id \in DOMAIN conversations :
                      response.project_id = None
                      \/ conversations[id].project_id = response.project_id})
        IN
        /\ Len(response.conversations) = Min(response.limit, Max(0, T - response.offset))
        /\ response.total = T

AddressedOps == {"get", "update", "delete", "clear", "fork", "regenerate", "send"}
\* a call that names a conversation id which is not in the store
MissingIdCall ==
    /\ response'.op \in AddressedOps
    /\ Len(requests') >= Len(requests)
    /\ Addressed # None
    /\ Addressed \notin DOMAIN conversations

C26_UpdatedAdvances ==
    [][/\ \A id \in DOMAIN conversations \cap DOMAIN conversations' :
             (\/ AppendedTo(conversations[id].messages, conversations'[id].messages)
              \/ (Arrives("update") /\ response'.status = 200 /\ response'.id = id))
             => SortKey(conversations'[id]) > SortKey(conversations[id])
       /\ (Arrives("delete") /\ response'.status = 200) =>
             /\ response'.id \notin DOMAIN conversations'
             /\ OthersUnchanged(response'.id)
    ]_vars

\* C27: clear empties the messages of the conversation it names; the conversation
\* stays in the store with its id, model, system prompt and workspace binding, and
\* no other conversation changes.
C27_ClearKeepsConversation ==
    [][(Arrives("clear") /\ response'.status = 200) =>
          LET id == response'.id IN
          /\ id \in DOMAIN conversations
          /\ id \in DOMAIN conversations'
          /\ conversations'[id].messages = <<>>
          /\ \A f \in {"id", "model", "system_prompt", "project_id", "title",
                       "created_at", "forked_from"} :
                conversations'[id][f] = conversations[id][f]
          /\ OthersUnchanged(id)
    ]_vars

\* a cleared conversation beside a fork of it that still holds its messages
C27_Witness ==
    /\ response.op = "clear"
    /\ response.status = 200
    /\ response.id \in DOMAIN conversations
    /\ conversations[response.id].messages = <<>>
    /\ \E f \in DOMAIN conversations :
          /\ conversations[f].forked_from = response.id
          /\ conversations[f].messages # <<>>

\* ------------------------------------------------------ stop and cleanup
\* The steps the event loop runs whatever the upstream does: a task whose
\* cancellation was requested is resumed with CancelledError, and a handler whose
\* awaited task or send has finished is resumed.  A task that waits for the next
\* item of stream_chat is resumed only if the upstream yields or closes.
CancelledTaskStep(w) ==
    /\ task[w].must_cancel
    /\ \E up \in Upstream \ {"failure"}, gone \in BOOLEAN : TaskStep(w, up, gone)

SpecStop ==
    /\ Init /\ [][Next]_vars
    /\ \A w \in StreamSockets :
          /\ WF_vars(CancelledTaskStep(w))
          /\ WF_vars(\E gone \in BOOLEAN : HandlerResume(w, gone))
          /\ WF_vars(HandlerFinally(w))

\* the stop of generation g, running on endpoint w, was acknowledged
StopRequested(w, g) ==
    /\ task[w].gen = g
    /\ task[w].pos \in {"created", "stream"}
    /\ task[w].must_cancel
    /\ Acked(g)
\* the handler of generation g on endpoint w has returned: no task handle and no
\* in-flight flag is left for its connection, and its peer, if still connected,
\* was sent the cancelled event of g
StopSettled(w, g) ==
    /\ task[w].gen = g
    /\ task[w].pos = "none"
    /\ pc[w] \in {"receive", "closed"}
    /\ task[w].client_id \notin DOMAIN active_streams
    /\ task[w].client_id \in DOMAIN connection_metadata
          => ~connection_metadata[task[w].client_id].is_streaming
    /\ (alive[w] /\ pc[w] = "receive") => Has(delivered[w], "cancelled", g)

\* C28: once stop was requested for a connection with a running generation task,
\* the task ends cancelled, the client is sent the terminal cancelled event, and the
\* task handle and in-flight flag are cleared, even if the upstream never yields
\* another fragment and never closes.
C28_StopSettles ==
    \A w \in StreamSockets : \A g \in 1..(MaxInputs + 1) :
        StopRequested(w, g) ~> StopSettled(w, g)

\* C29: no client is sent both the complete and the cancelled event of one
\* generation.
C29_OneTerminalEvent ==
    \A w \in WebSockets : \A g \in 1..gens :
        ~(Has(delivered[w], "complete", g) /\ Has(delivered[w], "cancelled", g))

\* C30: the finally block of the chat handler never raises: when the handler
\* returns, the session metadata of its connection is still there.
C30_CleanupNeverRaises ==
    [][\A w \in WebSockets : ~FinallyRaises(w)]_vars

\* C31: registry and session metadata hold the same connection ids, and every id
\* in the active task map is a registered connection id, in every state.
C31_RegistryConsistent ==
    /\ Keys(active_connections) = DOMAIN connection_metadata
    /\ DOMAIN active_streams \subseteq Keys(active_connections)

\* the ids other than c keep their task handle, their task and their session state
OtherIdsUntouched(c) ==
    \A c2 \in ClientIds \ {c} :
        /\ (c2 \in DOMAIN active_streams') = (c2 \in DOMAIN active_streams)
        /\ c2 \in DOMAIN active_streams =>
              /\ active_streams'[c2] = active_streams[c2]
              /\ task'[active_streams[c2]] = task[active_streams[c2]]
        /\ (c2 \in DOMAIN connection_metadata') = (c2 \in DOMAIN connection_metadata)
        /\ c2 \in DOMAIN connection_metadata =>
              connection_metadata'[c2] = connection_metadata[c2]
\* this step routes a stop_generation frame of w's connection
StopFrame(w) == Consumes(w) /\ Registered(w) /\ Head(inbox[w]).type = "stop_generation"

\* C32: every event of a generation is written only to the transport of the
\* endpoint whose chat started it, and a stop (frame or endpoint) or a disconnect
\* for one connection id leaves the task handle, task and session state of every
\* other id as they were.
C32_ConnectionsIsolated ==
    [][/\ \A v \in WebSockets : \A i \in DOMAIN Added(v) :
             Added(v)[i].type \in GenerationEvents => task[v].gen = Added(v)[i].gen
       /\ \A c \in ClientIds : StopCall(c) => OtherIdsUntouched(c)
       /\ \A w \in WebSockets :
             (StopFrame(w) \/ EndpointDisconnects(w))
                 => OtherIdsUntouched(GetClientId(active_connections, w))]_vars

\* C33: a broadcast never ends by raising, and when it has returned every
\* connection that was registered when it began and still is has been sent the
\* payload, whatever was accepted or removed while it was suspended in a send.
C33_BroadcastSurvivesChanges ==
    /\ broadcast_iter.state # "raised"
    /\ broadcast_iter.state = "returned" =>
          \A w \in broadcast_iter.targets : Registered(w) => w \in broadcast_iter.sent

\* this step ends the suspended call requests[i] with an exception
Fails(i) == response'.status = 500 /\ requests' = Without(requests, i)
\* role and content of each message
RoleContent(messages) ==
    [k \in DOMAIN messages |-> [role |-> messages[k].role, content |-> messages[k].content]]
\* the message sequence is the one the call found: for regenerate the list the
\* handler read before truncating it, for send the history it put into the
\* context without the user message it had appended
AsBeforeCall(r, messages) ==
    IF r.op = "regenerate" THEN messages = r.messages
    ELSE RoleContent(messages) = SubSeq(r.context, 1, Len(r.context) - 1)

\* C34: when the generation of a send or regenerate call fails before the
\* assistant message is appended, the conversation's message sequence is as it was
\* before the call.
C34_FailureRestores ==
    [][\A i \in DOMAIN requests :
         (Fails(i) /\ requests[i].id \in DOMAIN conversations') =>
             AsBeforeCall(requests[i], conversations'[requests[i].id].messages)]_vars

\* this step changes (or removes), respectively keeps, the message sequence of id
MessagesChanged(id) ==
    id \notin DOMAIN conversations'
    \/ conversations'[id].messages # conversations[id].messages
MessagesKept(id) ==
    id \in DOMAIN conversations'
    /\ conversations'[id].messages = conversations[id].messages

\* C35: a step that appends to, clears, regenerates or deletes a conversation
\* leaves the message sequence of its forks, and of the conversation it was
\* forked from, as it was.
C35_ForkIndependent ==
    [][\A f \in DOMAIN conversations :
         LET o == conversations[f].forked_from IN
         o \in DOMAIN conversations =>
             /\ MessagesChanged(o) => MessagesKept(f)
             /\ MessagesChanged(f) => MessagesKept(o)]_vars

C35_Witness ==
    \E f \in DOMAIN conversations :
        LET o == conversations[f].forked_from IN
        /\ o \in DOMAIN conversations
        /\ response.op = "send" /\ response.status = 200 /\ ~response.streaming
        /\ response.id = o
        /\ Len(conversations[o].messages) = Len(conversations[f].messages) + 1

\* C36: every assistant message stored in a conversation comes directly after a
\* user message, also when non-streaming sends for the conversation overlap.
C36_ReplyFollowsRequest ==
    \A id \in DOMAIN conversations :
        \A k \in DOMAIN conversations[id].messages :
            conversations[id].messages[k].role = "assistant" =>
                (k > 1 /\ conversations[id].messages[k - 1].role = "user")

\* C37: the first event written to an accepted connection's transport is its
\* welcome event; a broadcast that is running while the connection is accepted
\* reaches it, if at all, after the welcome.
C37_WelcomeFirst ==
    \A w \in WebSockets :
        delivered[w] # <<>> => delivered[w][1] = Event("welcome", 0, 0)

\* a connection accepted while a broadcast was suspended in a send, and then
\* reached by that broadcast
C37_Witness ==
    \E w \in WebSockets :
        /\ w \notin broadcast_iter.targets /\ w \in broadcast_iter.sent
        /\ delivered[w] = <<Event("welcome", 0, 0), Event("broadcast", 0, 0)>>
====
